---- MODULE Spec2Model ----
(***************************************************************************)
(* Model of vowpalwabbit/io/io_adapter.cc: the byte-stream adapters (plain *)
(* file, gzip file, stdio, gzip stdio, socket, vector sink, buffer view),  *)
(* their factories and the shared socket closer.                           *)
(*                                                                         *)
(* Six independent parts, one specification each:                          *)
(*   SpecSocket  socket, its readers/writers and the shared closer         *)
(*   SpecBuf     buffer_view                                               *)
(*   SpecVec     vector_writer                                             *)
(*   SpecStream  file, gzip file, stdio, gzip stdio and socket streams     *)
(*               used through the reader/writer interface                  *)
(*   SpecDuplex  a socket's reader and writer, each driven by its own      *)
(*               thread, a call taken step by step                         *)
(*   SpecGzStdio a sequence of gzip_stdio_adapter objects and their codec  *)
(*               handles                                                   *)
(***************************************************************************)
EXTENDS Integers, Sequences, FiniteSets, TLC

(***************************************************************************)
(* Bounds of the model.                                                    *)
(***************************************************************************)
\* number of readers/writers derived from one socket
MaxAdapters == 3
\* width of size_t / ssize_t / ptrdiff_t in the model (64 in the program)
SizeBits == 4
\* width of unsigned int in the model (32 in the program)
UIntBits == 2
\* longest byte range a buffer, a file or a write holds
MaxLen == 2
\* longest content a vector_writer's buffer is followed to
MaxVecLen == 5
\* number of vector_writer::write calls followed
MaxWrites == 3
\* number of read calls, and of write calls, a thread of the duplex part makes
MaxCalls == 2
\* number of gzip_stdio_adapter objects made in a run
MaxGz == 3

(***************************************************************************)
(* Integer types of the program.                                           *)
(***************************************************************************)
RECURSIVE Pow2(_)
Pow2(n) == IF n = 0 THEN 1 ELSE 2 * Pow2(n - 1)

SIZE_MAX == Pow2(SizeBits) - 1
PTRDIFF_MAX == Pow2(SizeBits - 1) - 1
UINT_MAX == Pow2(UIntBits) - 1

\* static_cast<size_t>(x), x any integer
ToSizeT(x) == x % Pow2(SizeBits)
\* static_cast<std::ptrdiff_t>(x) and the conversion to the ssize_t result
ToSigned(x) ==
    LET u == x % Pow2(SizeBits)
    IN IF u > PTRDIFF_MAX THEN u - Pow2(SizeBits) ELSE u
\* (unsigned int)num_bytes
ToUInt(x) == x % Pow2(UIntBits)

Min(a, b) == IF a < b THEN a ELSE b

Byte == {0, 1}
Bytes == UNION {[1..n -> Byte] : n \in 0..MaxLen}

\* the values of num_bytes a caller passes: small counts, and the edges of
\* the integer types
Sizes == (0..(MaxLen + 1)) \cup {UINT_MAX, UINT_MAX + 1, PTRDIFF_MAX, PTRDIFF_MAX + 1, SIZE_MAX}

VARIABLES
    \* ---- socket part ----
    sock,        \* the VW::io::socket object: "none", "live", "destroying", "dead"
    closers,     \* the socket_closer objects: sequence of [socket_fd, use_count, st]
    adapters,    \* the socket_adapter objects got from the socket
    fd_open,     \* whether the OS descriptor is open
    close_calls, \* number of close(fd) calls made
    io_closed,   \* a read/write was issued on the descriptor after its close
    sock_ret     \* what the last socket_adapter read/write returned

sockVars == <<sock, closers, adapters, fd_open, close_calls, io_closed, sock_ret>>

VARIABLES
    \* ---- buffer_view part ----
    view,        \* the buffer_view object: [st, data, len, read_head]
    view_obs     \* what its caller has seen of it since construction / reset()

bufVars == <<view, view_obs>>

VARIABLES
    \* ---- vector_writer part ----
    vec_buf,     \* the shared std::vector<char>, or "none"
    vec_obs      \* its initial contents, the ranges written so far, the last result

vecVars == <<vec_buf, vec_obs>>

VARIABLES
    \* ---- streams used through the reader / writer interface ----
    build,       \* "debug": assert is compiled in; "release": NDEBUG
    adapter,     \* the adapter object a factory returned
    env,         \* the transport under it: [content, pos]
    last,        \* the last call on the adapter or a factory, and its result
    obs          \* what the reader's caller has received since open / reset()

streamVars == <<build, adapter, env, last, obs>>

VARIABLES
    \* ---- a socket's reader and writer on two threads ----
    halves,      \* the two socket_adapter objects: [reader, writer]
    thread,      \* the two threads: position in the call, arguments, results
    wire         \* the connection: bytes the peer sends, bytes sent to it

duplexVars == <<halves, thread, wire>>

VARIABLES
    \* ---- gzip_stdio_adapter objects ----
    gzs,         \* the gzip_stdio_adapter objects made so far
    handles      \* the gzFile handles gzdopen returned

gzVars == <<gzs, handles>>

vars == <<sockVars, bufVars, vecVars, streamVars, duplexVars, gzVars>>
notSock == <<bufVars, vecVars, streamVars, duplexVars, gzVars>>
notBuf == <<sockVars, vecVars, streamVars, duplexVars, gzVars>>
notVec == <<sockVars, bufVars, streamVars, duplexVars, gzVars>>
notStream == <<sockVars, bufVars, vecVars, duplexVars, gzVars>>
notDuplex == <<sockVars, bufVars, vecVars, streamVars, gzVars>>
notGz == <<sockVars, bufVars, vecVars, streamVars, duplexVars>>

(***************************************************************************)
(* A specification follows one part; the objects of the other parts are    *)
(* not constructed in it.                                                  *)
(***************************************************************************)
NoObject == [st |-> "none"]

NoSocket ==
    /\ sock = NoObject /\ closers = <<>>
    /\ adapters = [i \in 1..MaxAdapters |-> NoObject]
    /\ fd_open = FALSE /\ close_calls = 0 /\ io_closed = FALSE /\ sock_ret = 0
NoBuf == view = NoObject /\ view_obs = NoObject
NoVec == vec_buf = NoObject /\ vec_obs = NoObject
NoStream ==
    /\ build = "none" /\ adapter = NoObject /\ env = NoObject
    /\ last = NoObject /\ obs = NoObject
NoDuplex == halves = NoObject /\ thread = NoObject /\ wire = NoObject
NoGz == gzs = [i \in 1..MaxGz |-> NoObject] /\ handles = <<>>

(***************************************************************************)
(* Socket, socket_adapter and socket_closer.                               *)
(***************************************************************************)
\* the descriptor handed to wrap_socket_descriptor
SocketFd == 7

NoAdapter == [st |-> "none", role |-> "none", socket_fd |-> -1, closer |-> 0]

\* socket::socket(int fd): _socket_fd(fd), _closer(make_shared<socket_closer>(fd))
InitSocket ==
    /\ sock = [st |-> "live", socket_fd |-> SocketFd, closer |-> 1]
    /\ closers = <<[socket_fd |-> SocketFd, use_count |-> 1, st |-> "alive"]>>
    /\ adapters = [i \in 1..MaxAdapters |-> NoAdapter]
    /\ fd_open = TRUE
    /\ close_calls = 0
    /\ io_closed = FALSE
    /\ sock_ret = 0
    /\ NoBuf /\ NoVec /\ NoStream /\ NoDuplex /\ NoGz

\* the first unused slot for a socket_adapter
FreeSlot(i) ==
    /\ adapters[i].st = "none"
    /\ \A j \in 1..MaxAdapters : j < i => adapters[j].st # "none"

\* a socket_adapter that keeps a plain reference to the closer, not a share
socket_adapter_ctor_noshare(i, role, fd, closer) ==
    /\ adapters' = [adapters EXCEPT ![i] =
           [st |-> "live", role |-> role, socket_fd |-> fd, closer |-> closer]]
    /\ closers' = closers

\* socket_adapter(int fd, const shared_ptr<socket_closer>& closer):
\* _socket_fd{fd}, _closer{closer} copies the shared_ptr (use count + 1)
socket_adapter_ctor(i, role, fd, closer) ==
    /\ adapters' = [adapters EXCEPT ![i] =
           [st |-> "live", role |-> role, socket_fd |-> fd, closer |-> closer]]
    /\ closers' = [closers EXCEPT ![closer].use_count = @ + 1]

\* socket::get_reader()
get_reader(i) ==
    /\ sock.st = "live"
    /\ FreeSlot(i)
    /\ socket_adapter_ctor(i, "reader", sock.socket_fd, sock.closer)
    /\ UNCHANGED <<sock, fd_open, close_calls, io_closed, sock_ret, notSock>>

\* a get_writer that gives the writer a closer of its own on the same fd
get_writer_own_closer(i) ==
    /\ sock.st = "live"
    /\ FreeSlot(i)
    /\ adapters' = [adapters EXCEPT ![i] =
           [st |-> "live", role |-> "writer", socket_fd |-> sock.socket_fd,
            closer |-> Len(closers) + 1]]
    /\ closers' = Append(closers,
           [socket_fd |-> sock.socket_fd, use_count |-> 1, st |-> "alive"])
    /\ UNCHANGED <<sock, fd_open, close_calls, io_closed, sock_ret, notSock>>

\* socket::get_writer()
get_writer(i) ==
    /\ sock.st = "live"
    /\ FreeSlot(i)
    /\ socket_adapter_ctor(i, "writer", sock.socket_fd, sock.closer)
    /\ UNCHANGED <<sock, fd_open, close_calls, io_closed, sock_ret, notSock>>

\* ~shared_ptr<socket_closer>: one atomic decrement of the use count; the
\* holder that brings it to zero is the one that runs ~socket_closer
shared_ptr_release(c) ==
    closers' = [closers EXCEPT
        ![c].use_count = @ - 1,
        ![c].st = IF closers[c].use_count - 1 = 0 THEN "expired" ELSE @]

AfterRelease(c) == IF closers[c].use_count - 1 = 0 THEN "destroying" ELSE "dead"

\* ~socket(): releases _closer
socket_dtor ==
    /\ sock.st = "live"
    /\ shared_ptr_release(sock.closer)
    /\ sock' = [sock EXCEPT !.st = AfterRelease(sock.closer)]
    /\ UNCHANGED <<adapters, fd_open, close_calls, io_closed, sock_ret, notSock>>

\* ~socket_adapter(): releases _closer
socket_adapter_dtor(i) ==
    /\ adapters[i].st = "live"
    /\ shared_ptr_release(adapters[i].closer)
    /\ adapters' = [adapters EXCEPT ![i].st = AfterRelease(adapters[i].closer)]
    /\ UNCHANGED <<sock, fd_open, close_calls, io_closed, sock_ret, notSock>>

\* details::socket_closer::~socket_closer(): close(_socket_fd), run by the
\* thread whose release brought the use count to zero; that thread's object is
\* destroyed when it returns
socket_closer_dtor(c) ==
    /\ closers[c].st = "expired"
    /\ closers' = [closers EXCEPT ![c].st = "destroyed"]
    /\ close_calls' = close_calls + 1
    /\ fd_open' = FALSE
    /\ sock' = IF sock.st = "destroying" /\ sock.closer = c
                THEN [sock EXCEPT !.st = "dead"] ELSE sock
    /\ adapters' = [i \in 1..MaxAdapters |->
           IF adapters[i].st = "destroying" /\ adapters[i].closer = c
           THEN [adapters[i] EXCEPT !.st = "dead"] ELSE adapters[i]]
    /\ UNCHANGED <<io_closed, sock_ret, notSock>>

\* what ::read / ::write on descriptor fd may return for a request of n bytes:
\* -1 on failure (always, on a closed descriptor), else a count up to n
OsTransfer(open, n) == IF open THEN (-1)..n ELSE {-1}

\* socket_adapter::read: return ::read(_socket_fd, buffer, (unsigned int)num_bytes)
socket_adapter_read(i, num_bytes) ==
    /\ adapters[i].st = "live"
    /\ adapters[i].role = "reader"
    /\ \E r \in OsTransfer(fd_open, ToUInt(num_bytes)) : sock_ret' = r
    /\ io_closed' = (io_closed \/ ~fd_open)
    /\ UNCHANGED <<sock, closers, adapters, fd_open, close_calls, notSock>>

\* socket_adapter::write: return ::write(_socket_fd, buffer, (unsigned int)num_bytes)
socket_adapter_write(i, num_bytes) ==
    /\ adapters[i].st = "live"
    /\ adapters[i].role = "writer"
    /\ \E r \in OsTransfer(fd_open, ToUInt(num_bytes)) : sock_ret' = r
    /\ io_closed' = (io_closed \/ ~fd_open)
    /\ UNCHANGED <<sock, closers, adapters, fd_open, close_calls, notSock>>

NextSocket ==
    \/ \E i \in 1..MaxAdapters : get_reader(i)
    \/ \E i \in 1..MaxAdapters : get_writer(i)
    \/ socket_dtor
    \/ \E i \in 1..MaxAdapters : socket_adapter_dtor(i)
    \/ \E c \in 1..Len(closers) : socket_closer_dtor(c)
    \/ \E i \in 1..MaxAdapters, n \in Sizes : socket_adapter_read(i, n)
    \/ \E i \in 1..MaxAdapters, n \in Sizes : socket_adapter_write(i, n)

SpecSocket == InitSocket /\ [][NextSocket]_vars

(***************************************************************************)
(* Claims on the socket part.                                              *)
(***************************************************************************)
AdapterLive(i) == adapters[i].st = "live"
AllDestroyed ==
    /\ sock.st = "dead"
    /\ \A i \in 1..MaxAdapters : adapters[i].st \in {"none", "dead"}
AnyLive == sock.st = "live" \/ \E i \in 1..MaxAdapters : AdapterLive(i)

\* C1: once the socket and every reader/writer got from it are destroyed, in
\* any order and interleaving, close(fd) has run exactly once; and it never
\* runs more than once.
C1_ClosedExactlyOnce ==
    /\ close_calls <= 1
    /\ AllDestroyed => (close_calls = 1 /\ ~fd_open)

\* C1 witness: the socket, a reader and a writer got from it are all
\* destroyed, and the descriptor was closed once.
C1_Witness ==
    /\ AllDestroyed
    /\ \E i, j \in 1..MaxAdapters :
          /\ adapters[i].st = "dead" /\ adapters[i].role = "reader"
          /\ adapters[j].st = "dead" /\ adapters[j].role = "writer"
    /\ close_calls = 1

\* C2: while the socket or any reader/writer got from it is not yet destroyed
\* the descriptor is open, and no read/write of a live adapter ran on a closed
\* descriptor.
C2_OpenWhileReferenced ==
    /\ AnyLive => (fd_open /\ close_calls = 0)
    /\ ~io_closed

\* C2 witness: the socket object is gone, a reader and a writer are gone too,
\* one adapter is still live and the descriptor is still open.
C2_Witness ==
    /\ sock.st = "dead"
    /\ \E i, j \in 1..MaxAdapters :
          /\ i # j
          /\ adapters[i].st = "dead"
          /\ adapters[j].st = "live"
    /\ fd_open

(***************************************************************************)
(* buffer_view.  Pointers are offsets from _data: _data is 0 and _data+_len *)
(* is len.                                                                 *)
(***************************************************************************)
\* what a byte copied from beyond data+len holds
Beyond == -1

RECURSIVE Fill(_, _)
Fill(x, n) == IF n <= 0 THEN <<>> ELSE <<x>> \o Fill(x, n - 1)

\* create_buffer_view(data, len) -> buffer_view(data, len):
\* reader(true), _data(data), _read_head(data), _len(len)
InitBuf ==
    /\ \E d \in Bytes :
          view = [st |-> "live", is_resettable |-> TRUE,
                  data |-> d, len |-> Len(d), read_head |-> 0]
    /\ view_obs = [st |-> "live", ret |-> 0, out |-> <<>>, ret_sum |-> 0,
                   req_sum |-> 0, pre_head |-> 0, reads |-> 0,
                   overread |-> FALSE, was_reset |-> FALSE, num_bytes |-> 0]
    /\ NoSocket /\ NoVec /\ NoStream /\ NoDuplex /\ NoGz

\* what the caller has asked for so far, counted up to one more than len
Requested(num_bytes) == Min(view_obs.req_sum + num_bytes, view.len + 1)
\* number of read calls seen, counted up to two
Reads == Min(view_obs.reads + 1, 2)

\* buffer_view::read
\*   num_bytes = std::min((_data + _len) - _read_head,
\*                        static_cast<std::ptrdiff_t>(num_bytes));
\*   if (num_bytes == 0) return 0;
\*   std::memcpy(buffer, _read_head, num_bytes); _read_head += num_bytes;
\*   return num_bytes;
\* A memcpy of more than the bytes left reads beyond data+len: undefined
\* behaviour, which either faults or goes on with the cursor wrapped.
buffer_view_read(num_bytes) ==
    /\ view.st = "live"
    /\ LET avail == view.len - view.read_head
           nb == ToSizeT(Min(avail, ToSigned(num_bytes)))
           seen == [view_obs EXCEPT !.pre_head = view.read_head,
                                    !.num_bytes = num_bytes,
                                    !.req_sum = Requested(num_bytes),
                                    !.reads = Reads]
       IN IF nb = 0
          THEN /\ view' = view
               /\ view_obs' = [seen EXCEPT !.ret = 0]
          ELSE IF nb <= avail
          THEN /\ view' = [view EXCEPT !.read_head = @ + nb]
               /\ view_obs' = [seen EXCEPT
                      !.ret = ToSigned(nb),
                      !.ret_sum = @ + ToSigned(nb),
                      !.out = @ \o SubSeq(view.data, view.read_head + 1,
                                          view.read_head + nb)]
          ELSE \/ /\ view' = [view EXCEPT !.st = "crashed"]
                  /\ view_obs' = [seen EXCEPT !.overread = TRUE]
               \/ /\ view' = [view EXCEPT !.st = "undefined",
                                  !.read_head = ToSigned(@ + nb)]
                  /\ view_obs' = [seen EXCEPT
                         !.overread = TRUE,
                         !.ret = ToSigned(nb),
                         !.ret_sum = @ + ToSigned(nb),
                         !.out = @ \o SubSeq(view.data, view.read_head + 1, view.len)
                                   \o Fill(Beyond, nb - avail)]
    /\ UNCHANGED notBuf

\* buffer_view::reset: _read_head = _data
buffer_view_reset ==
    /\ view.st = "live"
    /\ view' = [view EXCEPT !.read_head = 0]
    /\ view_obs' = [view_obs EXCEPT !.out = <<>>, !.ret_sum = 0, !.req_sum = 0,
                                    !.ret = 0, !.pre_head = 0, !.reads = 0,
                                    !.num_bytes = 0, !.was_reset = TRUE]
    /\ UNCHANGED notBuf

NextBuf ==
    \/ \E n \in Sizes : buffer_view_read(n)
    \/ buffer_view_reset

SpecBuf == InitBuf /\ [][NextBuf]_vars

(***************************************************************************)
(* Claims on buffer_view.                                                  *)
(***************************************************************************)
\* C3: after any sequence of read and reset calls the cursor is within
\* [data, data+len], and no read copied bytes at or beyond data+len.
C3_CursorInBounds ==
    view.st # "none" =>
        /\ 0 <= view.read_head
        /\ view.read_head <= view.len
        /\ ~view_obs.overread

\* C4: without reset, once the requested sizes sum to more than L the
\* returned counts sum to L and the bytes delivered are the source in order;
\* a read issued when all L bytes were delivered returns 0.
C4_ReadsDeliverSource ==
    (view.st # "none" /\ ~view_obs.was_reset) =>
        /\ view_obs.req_sum > view.len =>
              (view_obs.ret_sum = view.len /\ view_obs.out = view.data)
        /\ (view_obs.reads > 0 /\ view_obs.pre_head = view.len) =>
              view_obs.ret = 0

\* C16: for every num_bytes of the size type, values above the largest
\* pointer difference included, a read copies and returns
\* min(num_bytes, data+len - read_head) bytes and moves the cursor by as many.
C16_ClipsFullRange ==
    (view.st # "none" /\ view_obs.reads > 0) =>
        /\ ~view_obs.overread
        /\ view_obs.ret = Min(view_obs.num_bytes, view.len - view_obs.pre_head)
        /\ view.read_head = view_obs.pre_head + view_obs.ret

(***************************************************************************)
(* vector_writer.                                                          *)
(***************************************************************************)
\* create_vector_writer(buffer) -> vector_writer(buffer): _buffer(buffer);
\* the shared vector holds some contents P already
InitVec ==
    /\ \E P \in Bytes :
          /\ vec_buf = [elems |-> P, capacity |-> Len(P)]
          /\ vec_obs = [st |-> "live", init |-> P, log |-> <<>>, ret |-> 0,
                        num_bytes |-> 0, writes |-> 0, empty_writes |-> 0]
    /\ NoSocket /\ NoBuf /\ NoStream /\ NoDuplex /\ NoGz

\* std::vector::reserve(n): the capacity becomes at least n, the elements stay
reserve(v, n) == [v EXCEPT !.capacity = IF n > @ THEN n ELSE @]

\* an insert at the front of the vector
insert_begin(v, bytes) == [v EXCEPT !.elems = bytes \o @]

\* std::vector::insert(std::end(v), buffer, buffer + num_bytes)
insert_end(v, bytes) == [v EXCEPT !.elems = @ \o bytes]

\* vector_writer::write
\*   _buffer->reserve(_buffer->size() + num_bytes);
\*   _buffer->insert(std::end(*_buffer), buffer, buffer + num_bytes);
\*   return num_bytes;
vector_writer_write(bytes) ==
    /\ vec_obs.st = "live"
    /\ vec_obs.writes < MaxWrites
    /\ Len(vec_buf.elems) + Len(bytes) <= MaxVecLen
    /\ LET num_bytes == Len(bytes)
       IN /\ vec_buf' = insert_end(
                 reserve(vec_buf, Len(vec_buf.elems) + num_bytes), bytes)
          /\ vec_obs' = [vec_obs EXCEPT
                 !.ret = ToSigned(num_bytes),
                 !.num_bytes = num_bytes,
                 !.log = @ \o bytes,
                 !.writes = @ + 1,
                 !.empty_writes = @ + (IF num_bytes = 0 THEN 1 ELSE 0)]
    /\ UNCHANGED notVec

NextVec == \E bytes \in Bytes : vector_writer_write(bytes)

SpecVec == InitVec /\ [][NextVec]_vars

\* C7: after any sequence of writes A1..Ak on a buffer that held P, the
\* buffer is P ++ A1 ++ ... ++ Ak (what was there is kept, in place), within
\* its capacity, and each write returned its num_bytes.
C7_AppendsInOrder ==
    vec_obs.st = "live" =>
        /\ vec_buf.elems = vec_obs.init \o vec_obs.log
        /\ Len(vec_buf.elems) <= vec_buf.capacity
        /\ vec_obs.ret = vec_obs.num_bytes

\* C7 witness: three writes, one of them empty, on a buffer that was not
\* empty, the last one of two bytes or more.
C7_Witness ==
    /\ vec_obs.st = "live"
    /\ vec_obs.init # <<>>
    /\ vec_obs.writes = 3
    /\ vec_obs.empty_writes = 1
    /\ vec_obs.ret >= 2

(***************************************************************************)
(* Streams through the reader / writer interface: file_adapter,            *)
(* gzip_file_adapter, stdio_adapter, gzip_stdio_adapter and socket_adapter, *)
(* one object per run, made by a factory.                                  *)
(***************************************************************************)
\* the paths a factory is called with: the empty path, a path in a directory
\* that does not exist, a file the caller may not open, a file that does not
\* exist yet, an existing regular file
Paths == {"", "nodir/f", "locked", "absent", "data"}

\* whether open(filename, flags) / gzopen(filename, mode) succeeds; O_CREAT
\* makes a file that is absent
OsOpens(path, mode) ==
    CASE path = "data" -> TRUE
      [] path = "absent" -> mode = "write"
      [] OTHER -> FALSE

\* errno after a failed open
OsErrno(path) == IF path = "locked" THEN "EACCES" ELSE "ENOENT"

\* the sizes of the buffers a caller of read / write holds
BufferSizes == {n \in Sizes : n <= PTRDIFF_MAX}

\* state after program start: the build, and the bytes the transport holds
\* (the file's contents, what stdin or the peer will send)
InitStream ==
    /\ build \in {"debug", "release"}
    /\ \E c \in Bytes : env = [st |-> "live", content |-> c, pos |-> 0]
    /\ adapter = NoObject
    /\ last = NoObject
    /\ obs = [st |-> "live", pass |-> <<>>, eos |-> FALSE, failed |-> FALSE,
              has_first |-> FALSE, first_pass |-> <<>>]
    /\ NoSocket /\ NoBuf /\ NoVec /\ NoDuplex /\ NoGz

\* an adapter object as its constructor leaves it
New(kind, iface, is_resettable, mode, path, handle) ==
    [st |-> "live", kind |-> kind, iface |-> iface, is_resettable |-> is_resettable,
     mode |-> mode, path |-> path, handle |-> handle]

\* a call on adapter a (or the factory call that makes it) and its outcome;
\* raw is what the call on the transport returned and failed whether the
\* transport reported an I/O failure
Result(op, a, status, ret, io, n) ==
    [st |-> "called", op |-> op, kind |-> a.kind, iface |-> a.iface, mode |-> a.mode,
     path |-> a.path, status |-> status, ret |-> ret, io |-> io, asked |-> (n > 0),
     errno |-> "none", pos_before |-> env.pos, raw |-> 0, failed |-> FALSE]

\* file_adapter::file_adapter(const char* filename, file_mode mode):
\*   reader(true), _mode(mode); _file_descriptor = open(filename, ...);
\*   if (_file_descriptor == -1 && *filename != '\0') THROWERRNO(...)
file_adapter_ctor(path, mode, iface) ==
    LET a == New("file", iface, TRUE, mode, path,
                 IF OsOpens(path, mode) THEN "ok" ELSE "bad")
    IN /\ IF a.handle = "bad" /\ path # ""
          THEN /\ adapter' = adapter
               /\ last' = [Result("open", a, "throw", 0, 0, 0) EXCEPT
                              !.errno = OsErrno(path)]
          ELSE /\ adapter' = a
               /\ last' = Result("open", a, "ok", 0, 0, 0)
       /\ UNCHANGED <<build, env, obs, notStream>>

\* gzip_file_adapter::gzip_file_adapter(const char* filename, file_mode mode):
\*   reader(true), _mode(mode); _gz_file = gzopen(filename, "rb" or "wb");
\*   // TODO test for failure
gzip_file_adapter_ctor(path, mode, iface) ==
    LET a == New("gzip_file", iface, TRUE, mode, path,
                 IF OsOpens(path, mode) THEN "ok" ELSE "bad")
    IN /\ adapter' = a
       /\ last' = Result("open", a, "ok", 0, 0, 0)
       /\ UNCHANGED <<build, env, obs, notStream>>

\* a stdio_adapter constructed as reader(true)
stdio_adapter_ctor_resettable(iface) ==
    LET a == New("stdio", iface, TRUE, "both", "", "ok")
    IN /\ adapter' = a
       /\ last' = Result("open", a, "ok", 0, 0, 0)
       /\ UNCHANGED <<build, env, obs, notStream>>

\* stdio_adapter::stdio_adapter(): reader(false)
stdio_adapter_ctor(iface) ==
    LET a == New("stdio", iface, FALSE, "both", "", "ok")
    IN /\ adapter' = a
       /\ last' = Result("open", a, "ok", 0, 0, 0)
       /\ UNCHANGED <<build, env, obs, notStream>>

\* gzip_stdio_adapter::gzip_stdio_adapter(): reader(false),
\*   _gz_stdin = gzdopen(fileno(stdin), "rb"), _gz_stdout = gzdopen(fileno(stdout), "wb")
gzip_stdio_adapter_ctor(iface) ==
    LET a == New("gzip_stdio", iface, FALSE, "both", "", "ok")
    IN /\ adapter' = a
       /\ last' = Result("open", a, "ok", 0, 0, 0)
       /\ UNCHANGED <<build, env, obs, notStream>>

\* socket_adapter::socket_adapter(fd, closer): reader(false)
socket_stream_ctor(iface) ==
    LET a == New("socket", iface, FALSE, "both", "", "ok")
    IN /\ adapter' = a
       /\ last' = Result("open", a, "ok", 0, 0, 0)
       /\ UNCHANGED <<build, env, obs, notStream>>

\* a factory is called in a run of the stream part that has no adapter yet
NoAdapterYet == env.st = "live" /\ adapter.st = "none"

\* the factories
open_file_writer(path) == NoAdapterYet /\ file_adapter_ctor(path, "write", "writer")
open_file_reader(path) == NoAdapterYet /\ file_adapter_ctor(path, "read", "reader")
open_compressed_file_writer(path) ==
    NoAdapterYet /\ gzip_file_adapter_ctor(path, "write", "writer")
\* an open_compressed_file_reader that passes file_mode::write
open_compressed_file_reader_wb(path) ==
    NoAdapterYet /\ gzip_file_adapter_ctor(path, "write", "reader")
open_compressed_file_reader(path) ==
    NoAdapterYet /\ gzip_file_adapter_ctor(path, "read", "reader")
open_compressed_stdin == NoAdapterYet /\ gzip_stdio_adapter_ctor("reader")
open_compressed_stdout == NoAdapterYet /\ gzip_stdio_adapter_ctor("writer")
open_stdin == NoAdapterYet /\ stdio_adapter_ctor("reader")
open_stdout == NoAdapterYet /\ stdio_adapter_ctor("writer")
\* wrap_socket_descriptor(fd)->get_reader() / ->get_writer()
wrap_socket_get_reader == NoAdapterYet /\ socket_stream_ctor("reader")
wrap_socket_get_writer == NoAdapterYet /\ socket_stream_ctor("writer")

\* bytes the transport still holds for the reader
Left == Len(env.content) - env.pos

\* ::read(fd, buffer, count): -1 on a descriptor that is -1 or write-only
\* (EBADF) or on an I/O error, 0 for count 0 or at the end, else a count of
\* 1..count bytes taken from the transport
OsRead(a, count) ==
    IF a.handle = "bad" \/ a.mode = "write" THEN {-1}
    ELSE IF count = 0 \/ Left = 0 THEN {0}
    ELSE {-1} \cup (1..Min(count, Left))

\* ::write(fd, buffer, count): -1 on a descriptor that is -1 or read-only or
\* on an I/O error, else a count up to count
OsWrite(a, count) ==
    IF a.handle = "bad" \/ a.mode = "read" THEN {-1}
    ELSE IF count = 0 THEN {0}
    ELSE {-1} \cup (1..count)

\* gzread(file, buffer, len): -1 on a NULL or write-mode handle or a data
\* error, 0 at the end, else the number of uncompressed bytes read
GzRead(a, len) ==
    IF a.handle = "bad" \/ a.mode = "write" THEN {-1}
    ELSE IF len = 0 \/ Left = 0 THEN {0}
    ELSE {-1} \cup (1..Min(len, Left))

\* gzwrite(file, buffer, len): 0 on a NULL or read-mode handle or an error,
\* else len
GzWrite(a, len) ==
    IF a.handle = "bad" \/ a.mode = "read" THEN {0}
    ELSE {0, len}

\* std::cin.read(buffer, count); std::cin.gcount(): count is a signed
\* std::streamsize; the bytes extracted, fewer than count at the end of input
\* or when the stream fails
CinRead(count) ==
    IF count <= 0 THEN {0} ELSE 0..Min(count, Left)

\* the transport reported a failure: ::read, ::write and gzread return -1
OsFailed(r) == r < 0
\* gzwrite returns 0 for an error, and for len = 0
GzWriteFailed(r, len) == r = 0 /\ len > 0
\* std::cin stopped (badbit) before count bytes or the end of the input
CinFailed(r, count) == count > 0 /\ r < Min(count, Left)
\* std::cout has failed (badbit) and took none of the n bytes
CoutFailed(r, n) == n > 0 /\ r = 0

\* a read returned ret, after the transport handed over r bytes (r <= 0:
\* none) and reported a failure or not.  The caller's pass ends with the first read of num_bytes > 0 that
\* returns 0, and a new one starts at reset().
Deliver(r, failed, ret, num_bytes, io) ==
    LET done == (~obs.eos /\ ret = 0 /\ num_bytes > 0)
    IN /\ env' = [env EXCEPT !.pos = IF r > 0 THEN @ + r ELSE @]
       /\ obs' = [obs EXCEPT
              !.pass = IF r > 0 /\ ~obs.eos
                       THEN @ \o SubSeq(env.content, env.pos + 1, env.pos + r)
                       ELSE @,
              !.eos = @ \/ done,
              !.failed = @ \/ failed,
              !.has_first = @ \/ done,
              !.first_pass = IF done /\ ~obs.has_first THEN obs.pass ELSE @]
       /\ last' = [Result("read", adapter, "ok", ret, io, num_bytes) EXCEPT
                      !.raw = r, !.failed = failed]
       /\ UNCHANGED <<build, adapter, notStream>>

\* a write returned ret, after the transport took r bytes (r <= 0: none) and
\* reported a failure or not; the bytes leave the program
Accept(r, failed, ret, num_bytes, io) ==
    /\ last' = [Result("write", adapter, "ok", ret, io, num_bytes) EXCEPT
                   !.raw = r, !.failed = failed]
    /\ UNCHANGED <<build, adapter, env, obs, notStream>>

\* a failed assert: the process aborts
Abort(op, num_bytes) ==
    /\ adapter' = [adapter EXCEPT !.st = "aborted"]
    /\ last' = Result(op, adapter, "abort", 0, 0, num_bytes)
    /\ UNCHANGED <<build, env, obs, notStream>>

\* assert(cond): checked in a debug build, compiled out under NDEBUG
AssertFails(cond) == build = "debug" /\ ~cond

Is(kind) == adapter.st = "live" /\ adapter.kind = kind

\* a file_adapter::read with no check of the mode
file_adapter_read_unchecked(num_bytes) ==
    /\ Is("file")
    /\ \E r \in OsRead(adapter, ToUInt(num_bytes)) :
               Deliver(r, OsFailed(r), r, num_bytes, 1)

\* file_adapter::read
\*   assert(_mode == file_mode::read);
\*   return ::read(_file_descriptor, buffer, (unsigned int)num_bytes);
file_adapter_read(num_bytes) ==
    /\ Is("file")
    /\ IF AssertFails(adapter.mode = "read")
       THEN Abort("read", num_bytes)
       ELSE \E r \in OsRead(adapter, ToUInt(num_bytes)) :
               Deliver(r, OsFailed(r), r, num_bytes, 1)

\* a file_adapter::write that calls ::write again when the first call failed
file_adapter_write_retry(num_bytes) ==
    /\ Is("file")
    /\ IF AssertFails(adapter.mode = "write")
       THEN Abort("write", num_bytes)
       ELSE \E r1, r2 \in OsWrite(adapter, ToUInt(num_bytes)) :
               IF OsFailed(r1)
               THEN Accept(r2, OsFailed(r2), r2, num_bytes, 2)
               ELSE Accept(r1, FALSE, r1, num_bytes, 1)

\* file_adapter::write
\*   assert(_mode == file_mode::write);
\*   return ::write(_file_descriptor, buffer, (unsigned int)num_bytes);
file_adapter_write(num_bytes) ==
    /\ Is("file")
    /\ IF AssertFails(adapter.mode = "write")
       THEN Abort("write", num_bytes)
       ELSE \E r \in OsWrite(adapter, ToUInt(num_bytes)) :
               Accept(r, OsFailed(r), r, num_bytes, 1)

\* gzip_file_adapter::read
\*   assert(_mode == file_mode::read);
\*   auto num_read = gzread(_gz_file, buffer, (unsigned int)num_bytes);
\*   return (num_read > 0) ? (size_t)num_read : 0;
gzip_file_adapter_read(num_bytes) ==
    /\ Is("gzip_file")
    /\ IF AssertFails(adapter.mode = "read")
       THEN Abort("read", num_bytes)
       ELSE \E r \in GzRead(adapter, ToUInt(num_bytes)) :
               Deliver(r, OsFailed(r), IF r > 0 THEN r ELSE 0, num_bytes, 1)

\* gzip_file_adapter::write
\*   assert(_mode == file_mode::write);
\*   auto num_written = gzwrite(_gz_file, buffer, (unsigned int)num_bytes);
\*   return (num_written > 0) ? (size_t)num_written : 0;
gzip_file_adapter_write(num_bytes) ==
    /\ Is("gzip_file")
    /\ IF AssertFails(adapter.mode = "write")
       THEN Abort("write", num_bytes)
       ELSE \E r \in GzWrite(adapter, ToUInt(num_bytes)) :
               Accept(r, GzWriteFailed(r, ToUInt(num_bytes)),
                      IF r > 0 THEN r ELSE 0, num_bytes, 1)

\* stdio_adapter::read: std::cin.read(buffer, num_bytes); return std::cin.gcount();
stdio_adapter_read(num_bytes) ==
    /\ Is("stdio")
    /\ \E r \in CinRead(ToSigned(num_bytes)) :
          Deliver(r, CinFailed(r, ToSigned(num_bytes)), r, num_bytes, 1)

\* stdio_adapter::write: std::cout.write(buffer, num_bytes); return num_bytes;
\* std::cout takes the bytes, or none when it has failed
stdio_adapter_write(num_bytes) ==
    /\ Is("stdio")
    /\ \E r \in {0, num_bytes} :
          Accept(r, CoutFailed(r, num_bytes), ToSigned(num_bytes), num_bytes, 1)

\* a gzip_stdio_adapter::read that returns gzread's result as it is
gzip_stdio_adapter_read_raw(num_bytes) ==
    /\ Is("gzip_stdio")
    /\ \E r \in GzRead(adapter, ToUInt(num_bytes)) :
          Deliver(r, OsFailed(r), r, num_bytes, 1)

\* gzip_stdio_adapter::read
\*   auto num_read = gzread(_gz_stdin, buffer, (unsigned int)num_bytes);
\*   return (num_read > 0) ? (size_t)num_read : 0;
gzip_stdio_adapter_read(num_bytes) ==
    /\ Is("gzip_stdio")
    /\ \E r \in GzRead(adapter, ToUInt(num_bytes)) :
          Deliver(r, OsFailed(r), IF r > 0 THEN r ELSE 0, num_bytes, 1)

\* gzip_stdio_adapter::write
\*   auto num_written = gzwrite(_gz_stdout, buffer, (unsigned int)num_bytes);
\*   return (num_written > 0) ? (size_t)num_written : 0;
gzip_stdio_adapter_write(num_bytes) ==
    /\ Is("gzip_stdio")
    /\ \E r \in GzWrite(adapter, ToUInt(num_bytes)) :
          Accept(r, GzWriteFailed(r, ToUInt(num_bytes)),
                      IF r > 0 THEN r ELSE 0, num_bytes, 1)

\* socket_adapter::read through the reader interface
socket_stream_read(num_bytes) ==
    /\ Is("socket")
    /\ \E r \in OsRead(adapter, ToUInt(num_bytes)) :
               Deliver(r, OsFailed(r), r, num_bytes, 1)

\* socket_adapter::write through the writer interface
socket_stream_write(num_bytes) ==
    /\ Is("socket")
    /\ \E r \in OsWrite(adapter, ToUInt(num_bytes)) :
               Accept(r, OsFailed(r), r, num_bytes, 1)

\* a stdio_adapter that overrides reset() with file_adapter's seek
ResetImpl_stdio_seeks(kind) ==
    CASE kind = "file" -> "file_adapter"
      [] kind = "stdio" -> "file_adapter"
      [] kind = "gzip_file" -> "gzip_file_adapter"
      [] OTHER -> "reader"

\* the reset() a call on an adapter of this kind runs: file_adapter and
\* gzip_file_adapter declare "void reset() override", socket_adapter,
\* stdio_adapter and gzip_stdio_adapter declare none and inherit reader's
ResetImpl(kind) ==
    CASE kind = "file" -> "file_adapter"
      [] kind = "gzip_file" -> "gzip_file_adapter"
      [] OTHER -> "reader"

\* reset() returned: the caller starts a new pass
Rewound(pos) ==
    /\ env' = [env EXCEPT !.pos = pos]
    /\ obs' = [obs EXCEPT !.pass = <<>>, !.eos = FALSE]
    /\ last' = Result("reset", adapter, "ok", 0, 0, 0)
    /\ UNCHANGED <<build, adapter, notStream>>

\* file_adapter::reset: ::lseek(_file_descriptor, 0, SEEK_SET), result unused
file_adapter_reset ==
    /\ adapter.st = "live"
    /\ ResetImpl(adapter.kind) = "file_adapter"
    /\ Rewound(IF adapter.handle = "ok" THEN 0 ELSE env.pos)

\* gzip_file_adapter::reset: gzseek(_gz_file, 0, SEEK_SET), result unused;
\* gzseek rewinds a handle open for reading and fails on NULL
gzip_file_adapter_reset ==
    /\ adapter.st = "live"
    /\ ResetImpl(adapter.kind) = "gzip_file_adapter"
    /\ Rewound(IF adapter.handle = "ok" THEN 0 ELSE env.pos)

\* reader::reset of io_adapter.h, which the adapters without an override
\* run: the contract violation for a reader that is not resettable
reader_reset ==
    /\ adapter.st = "live"
    /\ ResetImpl(adapter.kind) = "reader"
    /\ last' = Result("reset", adapter, "violation", 0, 0, 0)
    /\ UNCHANGED <<build, adapter, env, obs, notStream>>

\* the adapter's destructor: ::close(_file_descriptor), gzclose(_gz_file),
\* gzclose(_gz_stdin) and gzclose(_gz_stdout), or nothing
adapter_dtor ==
    /\ adapter.st = "live"
    /\ adapter' = [adapter EXCEPT !.st = "dead"]
    /\ last' = Result("destroy", adapter, "ok", 0, 0, 0)
    /\ UNCHANGED <<build, env, obs, notStream>>

NextStream ==
    \/ \E path \in Paths : open_file_writer(path)
    \/ \E path \in Paths : open_file_reader(path)
    \/ \E path \in Paths : open_compressed_file_writer(path)
    \/ \E path \in Paths : open_compressed_file_reader(path)
    \/ open_compressed_stdin
    \/ open_compressed_stdout
    \/ open_stdin
    \/ open_stdout
    \/ wrap_socket_get_reader
    \/ wrap_socket_get_writer
    \/ \E n \in BufferSizes : file_adapter_read(n)
    \/ \E n \in BufferSizes : file_adapter_write(n)
    \/ \E n \in BufferSizes : gzip_file_adapter_read(n)
    \/ \E n \in BufferSizes : gzip_file_adapter_write(n)
    \/ \E n \in BufferSizes : stdio_adapter_read(n)
    \/ \E n \in BufferSizes : stdio_adapter_write(n)
    \/ \E n \in BufferSizes : gzip_stdio_adapter_read(n)
    \/ \E n \in BufferSizes : gzip_stdio_adapter_write(n)
    \/ \E n \in BufferSizes : socket_stream_read(n)
    \/ \E n \in BufferSizes : socket_stream_write(n)
    \/ file_adapter_reset
    \/ gzip_file_adapter_reset
    \/ reader_reset
    \/ adapter_dtor

SpecStream == InitStream /\ [][NextStream]_vars

(***************************************************************************)
(* Claims on the streams.                                                  *)
(***************************************************************************)
Called(op) == last.st = "called" /\ last.op = op

\* C5: on a resettable adapter open for reading, every pass read to its end
\* (a read of num_bytes > 0 returned 0) with no I/O failure delivers the same
\* bytes as the first such pass, whatever happened before the reset().
C5_ResetRereadsSame ==
    (/\ adapter.st = "live"
     /\ adapter.is_resettable
     /\ adapter.mode = "read"
     /\ adapter.handle = "ok"
     /\ ~obs.failed
     /\ obs.eos)
    => obs.pass = obs.first_pass

NonResettable == {"socket", "stdio", "gzip_stdio"}

\* C6: reset() on a socket, stdio or compressed-stdio reader ends in the
\* contract violation, never in a normal return, and leaves the position of
\* the stream, hence what later reads return, as it was; these readers are
\* not resettable.
C6_ResetRejected ==
    /\ (adapter.st \in {"live", "dead"} /\ adapter.kind \in NonResettable)
          => ~adapter.is_resettable
    /\ (Called("reset") /\ last.kind \in NonResettable) =>
          /\ last.status = "violation"
          /\ env.pos = last.pos_before

\* C6 witness: reset() called on a socket reader part-way through its stream.
C6_Witness ==
    /\ Called("reset")
    /\ last.kind = "socket"
    /\ last.iface = "reader"
    /\ last.status = "violation"
    /\ env.pos > 0
    /\ Left > 0

\* C8: open_file_reader("") makes an adapter without failing, and every read
\* on that adapter returns 0.
C8_EmptyPathNullStream ==
    (/\ last.st = "called"
     /\ last.kind = "file"
     /\ last.path = ""
     /\ last.mode = "read"
     /\ last.iface = "reader")
    => /\ Called("open") => (last.status = "ok" /\ adapter.st = "live")
       /\ Called("read") => (last.status = "ok" /\ last.ret = 0)

\* C9: when the open of a non-empty path fails, the plain-file and the
\* compressed-file factory, for reading or writing, fail with the OS error
\* and return no adapter.
C9_OpenFailureIsFatal ==
    (/\ Called("open")
     /\ last.kind \in {"file", "gzip_file"}
     /\ last.path # ""
     /\ ~OsOpens(last.path, last.mode))
    => /\ last.status = "throw"
       /\ last.errno # "none"
       /\ adapter.st = "none"

\* a read on a write-mode, or a write on a read-mode, file or gzip adapter
Mismatched ==
    /\ last.st = "called"
    /\ last.kind \in {"file", "gzip_file"}
    /\ last.op \in {"read", "write"}
    /\ last.mode # last.op

\* the mode of a constructed adapter is the one its next state has
ModeKept ==
    (adapter.st # "none" /\ adapter'.st # "none") => adapter'.mode = adapter.mode

\* C10 as claimed: the mode never changes, and a read on a write-mode (write
\* on a read-mode) file or gzip adapter is caught and performs no I/O.
C10_MismatchAlwaysCaught ==
    /\ [][ModeKept]_vars
    /\ [](Mismatched => (last.status = "abort" /\ last.io = 0))

\* what a mismatched call does, by build
MismatchByBuild ==
    Mismatched =>
        IF build = "debug"
        THEN last.status = "abort" /\ last.io = 0 /\ adapter.st = "aborted"
        ELSE /\ last.status = "ok"
             /\ last.io = 1
             /\ last.ret = IF last.kind = "file" THEN -1 ELSE 0

\* C10 amended: the mode never changes; with assert compiled in, a
\* mismatched call aborts before any I/O; under NDEBUG it makes its one call
\* on the descriptor / codec handle, which transfers nothing and returns -1
\* (plain file) or 0 (compressed file).
C10_MismatchCaughtInDebug ==
    /\ [][ModeKept]_vars
    /\ []MismatchByBuild

\* C10 witness: in a debug build, read was called on a file adapter that
\* open_file_writer made, and the process aborted.
C10_Witness ==
    /\ Mismatched
    /\ build = "debug"
    /\ last.kind = "file"
    /\ last.op = "read"
    /\ last.mode = "write"
    /\ last.status = "abort"

ReadOrWrite == last.st = "called" /\ last.op \in {"read", "write"}

\* C11: on every adapter, a read or write during which the transport reported
\* an I/O failure returns a negative value.
C11_FailureIsNegative ==
    (ReadOrWrite /\ last.failed) => last.ret < 0

Resettable == {"file", "gzip_file"}

\* is_resettable of a constructed adapter is the one its next state has
ResettableKept ==
    /\ (adapter.st # "none" /\ adapter'.st # "none")
          => adapter'.is_resettable = adapter.is_resettable
    /\ (view.st # "none" /\ view'.st # "none")
          => view'.is_resettable = view.is_resettable

\* is_resettable by kind of adapter, and what reset() does by is_resettable
ResettableByKind ==
    /\ adapter.st # "none" => adapter.is_resettable = (adapter.kind \in Resettable)
    /\ view.st # "none" => view.is_resettable
    /\ Called("reset") =>
          IF last.kind \in Resettable
          THEN last.status = "ok" /\ env.pos = 0
          ELSE last.status # "ok" /\ env.pos = last.pos_before
    /\ (view.st = "live" /\ view_obs.was_reset /\ view_obs.reads = 0)
          => view.read_head = 0

\* C12: is_resettable is set by the constructor and never changes; it is true
\* for file, gzip file and buffer view, false for socket, stdio and gzip stdio;
\* reset() puts the position back to the start of the stream on the former and
\* on none of the latter.
C12_ResettableFixedByKind ==
    /\ [][ResettableKept]_vars
    /\ []ResettableByKind

\* C12 witness: reset() on a compressed-file reader that was part-way through
\* its file, which is at its start again.
C12_Witness ==
    /\ Called("reset")
    /\ last.kind = "gzip_file"
    /\ last.iface = "reader"
    /\ last.pos_before > 0
    /\ env.pos = 0
    /\ adapter.is_resettable

GzKinds == {"gzip_file", "gzip_stdio"}

\* C14: a read or write of a compressed-file or compressed-stdio adapter
\* returns the codec's result when that is positive and 0 when it is not, so
\* never a negative value.
C14_CodecResultClamped ==
    (ReadOrWrite /\ last.kind \in GzKinds /\ last.status = "ok") =>
        /\ last.ret >= 0
        /\ last.ret = IF last.raw > 0 THEN last.raw ELSE 0

\* C14 witness: gzread failed (-1) under a compressed-stdin reader whose read
\* returned 0.
C14_Witness ==
    /\ Called("read")
    /\ last.kind = "gzip_stdio"
    /\ last.raw < 0
    /\ last.failed
    /\ last.ret = 0

\* C15: a read or write of a socket or plain-file adapter that returns has
\* made one call of ::read / ::write and returns what that call returned.
C15_OneCallPassedThrough ==
    (ReadOrWrite /\ last.kind \in {"socket", "file"} /\ last.status = "ok") =>
        /\ last.io = 1
        /\ last.ret = last.raw

\* C15 witness: a write on a plain-file writer whose ::write failed, returned
\* as -1 after the one call.
C15_Witness ==
    /\ Called("write")
    /\ last.kind = "file"
    /\ last.iface = "writer"
    /\ last.mode = "write"
    /\ last.failed
    /\ last.ret = -1
    /\ last.io = 1

FileKinds == {"file", "gzip_file"}

\* the call is one the interface the factory returned offers: read on a
\* reader, write on a writer (any other call needs a cast across to the
\* adapter's other base class)
ThroughInterface ==
    \/ last.op = "read" /\ last.iface = "reader"
    \/ last.op = "write" /\ last.iface = "writer"

\* C18: the file and gzip-file adapters the reader factories return are in
\* read mode and those the writer factories return in write mode, so a read /
\* write through the interface returned is never a mode mismatch.
C18_FactoryModeMatchesInterface ==
    /\ (adapter.st # "none" /\ adapter.kind \in FileKinds) =>
          adapter.mode = (IF adapter.iface = "reader" THEN "read" ELSE "write")
    /\ (ReadOrWrite /\ last.kind \in FileKinds /\ ThroughInterface) =>
          (~Mismatched /\ last.status = "ok")

\* C18 witness: in a build with assert, a read through the reader that
\* open_compressed_file_reader returned delivered bytes.
C18_Witness ==
    /\ Called("read")
    /\ build = "debug"
    /\ last.kind = "gzip_file"
    /\ last.iface = "reader"
    /\ last.mode = "read"
    /\ last.status = "ok"
    /\ last.ret > 0

(***************************************************************************)
(* A socket's reader and writer, each given to a thread of its own.  A     *)
(* call is taken in steps: the thread calls read / write, the adapter      *)
(* issues ::read / ::write, the OS call returns and the adapter returns    *)
(* its result.                                                             *)
(***************************************************************************)
\* a thread before its first call
Idle ==
    [pc |-> "idle", num_bytes |-> 0, count |-> 0, fd |-> -1, buffer |-> <<>>,
     ret |-> 0, calls |-> 0, moved |-> <<>>]

\* a socket_adapter object: _socket_fd and _closer
Half == [socket_fd |-> SocketFd, closer |-> 1]

\* the first n bytes of a stream whose neighbours differ
Pattern(n) == [i \in 1..n |-> i % 2]

\* the sizes the reader's thread asks for, and the ranges the writer's writes
DuplexSizes == {0, 1, MaxLen}
DuplexBuffers == {Pattern(n) : n \in 0..MaxLen}

\* wrap_socket_descriptor(fd), then get_reader() and get_writer(): two
\* socket_adapter objects on the same descriptor and closer, one per thread;
\* the peer sends MaxLen bytes and closes its end
InitDuplex ==
    /\ halves = [st |-> "live", reader |-> Half, writer |-> Half]
    /\ thread = [st |-> "live", reader |-> Idle, writer |-> Idle]
    /\ wire = [st |-> "live", inbound |-> Pattern(MaxLen), in_pos |-> 0,
               outbound |-> <<>>]
    /\ NoSocket /\ NoBuf /\ NoVec /\ NoStream /\ NoGz

\* the reader's thread calls reader->read(buffer, num_bytes)
reader_thread_calls(num_bytes) ==
    /\ thread.st = "live"
    /\ thread.reader.pc = "idle"
    /\ thread.reader.calls < MaxCalls
    /\ thread' = [thread EXCEPT !.reader =
           [@ EXCEPT !.pc = "called", !.num_bytes = num_bytes, !.buffer = <<>>,
                     !.ret = 0, !.calls = @ + 1]]
    /\ UNCHANGED <<halves, wire, notDuplex>>

\* the writer's thread calls writer->write(buffer, num_bytes)
writer_thread_calls(bytes) ==
    /\ thread.st = "live"
    /\ thread.writer.pc = "idle"
    /\ thread.writer.calls < MaxCalls
    /\ thread' = [thread EXCEPT !.writer =
           [@ EXCEPT !.pc = "called", !.num_bytes = Len(bytes), !.buffer = bytes,
                     !.ret = 0, !.calls = @ + 1]]
    /\ UNCHANGED <<halves, wire, notDuplex>>

\* socket_adapter::read issues ::read(_socket_fd, buffer, (unsigned int)num_bytes)
socket_adapter_read_enter ==
    /\ thread.st = "live"
    /\ thread.reader.pc = "called"
    /\ thread' = [thread EXCEPT !.reader =
           [@ EXCEPT !.pc = "in_os", !.fd = halves.reader.socket_fd,
                     !.count = ToUInt(thread.reader.num_bytes)]]
    /\ UNCHANGED <<halves, wire, notDuplex>>

\* a socket_adapter::write that takes a lock the two adapters share and the
\* reader holds across its ::read
socket_adapter_write_enter_locked ==
    /\ thread.st = "live"
    /\ thread.writer.pc = "called"
    /\ thread.reader.pc # "in_os"
    /\ thread' = [thread EXCEPT !.writer =
           [@ EXCEPT !.pc = "in_os", !.fd = halves.writer.socket_fd,
                     !.count = ToUInt(thread.writer.num_bytes)]]
    /\ UNCHANGED <<halves, wire, notDuplex>>

\* socket_adapter::write issues ::write(_socket_fd, buffer, (unsigned int)num_bytes)
socket_adapter_write_enter ==
    /\ thread.st = "live"
    /\ thread.writer.pc = "called"
    /\ thread' = [thread EXCEPT !.writer =
           [@ EXCEPT !.pc = "in_os", !.fd = halves.writer.socket_fd,
                     !.count = ToUInt(thread.writer.num_bytes)]]
    /\ UNCHANGED <<halves, wire, notDuplex>>

\* what ::read on the connection returns: -1, 0 for count 0 or at the end of
\* what the peer sends, else a count of 1..count bytes
WireRead(count) ==
    LET left == Len(wire.inbound) - wire.in_pos
    IN IF count = 0 \/ left = 0 THEN {0} ELSE {-1} \cup (1..Min(count, left))

\* what ::write on the connection returns: -1, or a count up to count
WireWrite(count) == IF count = 0 THEN {0} ELSE {-1} \cup (1..count)

\* ::read returns in the reader's thread, and socket_adapter::read returns
\* its result: r bytes of the connection are in the reader's buffer
socket_adapter_read_return ==
    /\ thread.st = "live"
    /\ thread.reader.pc = "in_os"
    /\ \E r \in WireRead(thread.reader.count) :
          LET got == IF r > 0
                     THEN SubSeq(wire.inbound, wire.in_pos + 1, wire.in_pos + r)
                     ELSE <<>>
          IN /\ thread' = [thread EXCEPT !.reader =
                    [@ EXCEPT !.pc = "idle", !.ret = r, !.buffer = got,
                              !.num_bytes = 0, !.count = 0, !.fd = -1,
                              !.moved = @ \o got]]
             /\ wire' = [wire EXCEPT !.in_pos = @ + Len(got)]
    /\ UNCHANGED <<halves, notDuplex>>

\* ::write returns in the writer's thread, and socket_adapter::write returns
\* its result: the first r bytes of the writer's buffer are on the connection
socket_adapter_write_return ==
    /\ thread.st = "live"
    /\ thread.writer.pc = "in_os"
    /\ \E r \in WireWrite(thread.writer.count) :
          LET put == IF r > 0 THEN SubSeq(thread.writer.buffer, 1, r) ELSE <<>>
          IN /\ thread' = [thread EXCEPT !.writer =
                    [@ EXCEPT !.pc = "idle", !.ret = r, !.buffer = <<>>,
                              !.num_bytes = 0, !.count = 0, !.fd = -1,
                              !.moved = @ \o put]]
             /\ wire' = [wire EXCEPT !.outbound = @ \o put]
    /\ UNCHANGED <<halves, notDuplex>>

NextDuplex ==
    \/ \E n \in DuplexSizes : reader_thread_calls(n)
    \/ \E bytes \in DuplexBuffers : writer_thread_calls(bytes)
    \/ socket_adapter_read_enter
    \/ socket_adapter_write_enter
    \/ socket_adapter_read_return
    \/ socket_adapter_write_return

SpecDuplex == InitDuplex /\ [][NextDuplex]_vars

\* a call that was made can take its next step, whatever the other thread
\* is doing
NoWaiting ==
    thread.st = "live" =>
        /\ thread.reader.pc = "called" => ENABLED socket_adapter_read_enter
        /\ thread.reader.pc = "in_os" => ENABLED socket_adapter_read_return
        /\ thread.writer.pc = "called" => ENABLED socket_adapter_write_enter
        /\ thread.writer.pc = "in_os" => ENABLED socket_adapter_write_return

\* a step of one thread's call leaves the other thread, its object and its
\* direction of the connection as they were
Independent ==
    (thread.st = "live" /\ thread'.st = "live") =>
        /\ halves' = halves
        /\ thread'.reader # thread.reader =>
              (thread'.writer = thread.writer /\ wire'.outbound = wire.outbound)
        /\ thread'.writer # thread.writer =>
              /\ thread'.reader = thread.reader
              /\ wire'.in_pos = wire.in_pos
              /\ wire'.inbound = wire.inbound

\* the reader has received the bytes the peer sent, in order, and the peer
\* is sent the bytes the writer's calls reported as written, in order
BytesIntact ==
    thread.st = "live" =>
        /\ thread.reader.moved = SubSeq(wire.inbound, 1, wire.in_pos)
        /\ (thread.reader.pc = "idle" /\ thread.reader.ret > 0) =>
              thread.reader.buffer =
                  SubSeq(wire.inbound, wire.in_pos - thread.reader.ret + 1, wire.in_pos)
        /\ wire.outbound = thread.writer.moved

\* C13: with the reader and the writer of one socket each on a thread of its
\* own, in every interleaving a read / write call that was made can go on and
\* return without waiting for the other object, and its steps change neither
\* the other object, the other thread's call nor the bytes that call moves.
C13_IndependentHalves ==
    /\ []NoWaiting
    /\ [][Independent]_vars
    /\ []BytesIntact

\* C13 witness: both threads are inside their OS call at the same time, each
\* after a call that moved bytes.
C13_Witness ==
    /\ thread.st = "live"
    /\ thread.reader.pc = "in_os"
    /\ thread.writer.pc = "in_os"
    /\ thread.reader.moved # <<>>
    /\ thread.writer.moved # <<>>

(***************************************************************************)
(* gzip_stdio_adapter objects and the codec handles they hold.             *)
(***************************************************************************)
\* program start: no gzip_stdio_adapter is made yet
InitGzStdio ==
    /\ gzs = [i \in 1..MaxGz |-> [st |-> "free"]]
    /\ handles = <<>>
    /\ NoSocket /\ NoBuf /\ NoVec /\ NoStream /\ NoDuplex

\* gzdopen(fd, mode): a new gzFile handle on the descriptor
gzdopen(fd, mode) == [fd |-> fd, mode |-> mode, st |-> "open", closes |-> 0]

\* gzclose(file) on handle h
gzclose(hs, h) == [hs EXCEPT ![h].st = "closed", ![h].closes = @ + 1]

\* open_compressed_stdin() / open_compressed_stdout(): new gzip_stdio_adapter()
\*   _gz_stdin = gzdopen(fileno(stdin), "rb");
\*   _gz_stdout = gzdopen(fileno(stdout), "wb");
new_gzip_stdio_adapter(i, iface) ==
    /\ gzs[i].st = "free"
    /\ \A j \in 1..MaxGz : j < i => gzs[j].st # "free"
    /\ handles' = handles \o <<gzdopen("stdin", "rb"), gzdopen("stdout", "wb")>>
    /\ gzs' = [gzs EXCEPT ![i] =
           [st |-> "live", iface |-> iface, gz_stdin |-> Len(handles) + 1,
            gz_stdout |-> Len(handles) + 2, used |-> FALSE]]
    /\ UNCHANGED notGz

\* a read on an adapter open_compressed_stdin returned, or a write on one
\* open_compressed_stdout returned: the role its caller exercises
gzip_stdio_adapter_use(i) ==
    /\ gzs[i].st = "live"
    /\ ~gzs[i].used
    /\ gzs' = [gzs EXCEPT ![i].used = TRUE]
    /\ UNCHANGED <<handles, notGz>>

\* a destructor that closes the handle of the adapter's role only
delete_gzip_stdio_adapter_role_only(i) ==
    /\ gzs[i].st = "live"
    /\ handles' = gzclose(handles,
           IF gzs[i].iface = "reader" THEN gzs[i].gz_stdin ELSE gzs[i].gz_stdout)
    /\ gzs' = [gzs EXCEPT ![i].st = "dead"]
    /\ UNCHANGED notGz

\* ~gzip_stdio_adapter(): gzclose(_gz_stdin); gzclose(_gz_stdout);
delete_gzip_stdio_adapter(i) ==
    /\ gzs[i].st = "live"
    /\ handles' = gzclose(gzclose(handles, gzs[i].gz_stdin), gzs[i].gz_stdout)
    /\ gzs' = [gzs EXCEPT ![i].st = "dead"]
    /\ UNCHANGED notGz

NextGzStdio ==
    \/ \E i \in 1..MaxGz, iface \in {"reader", "writer"} : new_gzip_stdio_adapter(i, iface)
    \/ \E i \in 1..MaxGz : gzip_stdio_adapter_use(i)
    \/ \E i \in 1..MaxGz : delete_gzip_stdio_adapter(i)

SpecGzStdio == InitGzStdio /\ [][NextGzStdio]_vars

\* adapter i was constructed
Made(i) == gzs[i].st \in {"live", "dead"}

\* the handles of adapter i
HandlesOf(i) == {gzs[i].gz_stdin, gzs[i].gz_stdout}

\* C17: every gzip_stdio_adapter, reader or writer, used or not, holds from
\* its construction a handle on stdin and one on stdout, both open and its
\* own; its destruction closes both; no handle is closed twice and none of a
\* destroyed adapter is left open.
C17_BothHandlesOpenedAndClosed ==
    /\ \A i \in 1..MaxGz : Made(i) =>
          /\ gzs[i].gz_stdin \in 1..Len(handles)
          /\ gzs[i].gz_stdout \in 1..Len(handles)
          /\ gzs[i].gz_stdin # gzs[i].gz_stdout
          /\ handles[gzs[i].gz_stdin].fd = "stdin"
          /\ handles[gzs[i].gz_stdout].fd = "stdout"
          /\ \A h \in HandlesOf(i) :
                IF gzs[i].st = "live"
                THEN handles[h].st = "open" /\ handles[h].closes = 0
                ELSE handles[h].st = "closed" /\ handles[h].closes = 1
          /\ \A j \in 1..MaxGz :
                (j # i /\ Made(j)) => HandlesOf(i) \cap HandlesOf(j) = {}
    /\ \A h \in 1..Len(handles) :
          /\ handles[h].closes <= 1
          /\ \E i \in 1..MaxGz : Made(i) /\ h \in HandlesOf(i)

\* C17 witness: a reader that was read from and a writer that was never
\* written to are destroyed, a third adapter is live, and six handles were
\* opened.
C17_Witness ==
    /\ \E i, j, k \in 1..MaxGz :
          /\ gzs[i].st = "dead" /\ gzs[i].iface = "reader" /\ gzs[i].used
          /\ gzs[j].st = "dead" /\ gzs[j].iface = "writer" /\ ~gzs[j].used
          /\ gzs[k].st = "live"
    /\ Len(handles) = 6

(***************************************************************************)
(* The whole program: one of the six parts per run.                       *)
(***************************************************************************)
Init == InitSocket \/ InitBuf \/ InitVec \/ InitStream \/ InitDuplex \/ InitGzStdio
Next == NextSocket \/ NextBuf \/ NextVec \/ NextStream \/ NextDuplex \/ NextGzStdio
Spec == Init /\ [][Next]_vars

====
